---- MODULE Spec2Model ----
(***************************************************************************)
(* A model of the DMR proxy servers of this repository.                    *)
(*                                                                         *)
(* The repository holds several deployments of the same thin proxy:        *)
(*   src/server.js 1-104      OpenAI pass-through  (/chat, /images)        *)
(*   src/server.js 106-148    Groq forwarder       (/chat)                 *)
(*   src/server.js 151-253    Groq utility         (/ask, ...)             *)
(*   src/unnamed/part_000     Groq multi-feature   (/chat, /mcq, ...)      *)
(*   src/unnamed/part_001     Groq chat + MCQ, a textual copy of the /chat *)
(*                            and /mcq handlers of part_000                *)
(* A request names the route it is sent to; the route fixes the handler.   *)
(*                                                                         *)
(* JavaScript values are tagged records (typ = "undefined", "string",      *)
(* "number", "array", "object").  A string is a sequence of tokens, the    *)
(* empty sequence being the empty string, so that JSON.parse can be        *)
(* modelled as a parser and string concatenation as \o.  Objects whose     *)
(* shape the code knows (request bodies, payloads, turns, upstream data,   *)
(* responses) are functions from the keys present to their values.         *)
(* Temperatures are in tenths (7 is 0.7).                                  *)
(***************************************************************************)
EXTENDS Integers, Sequences, FiniteSets, TLC

VARIABLES
    PROXY_SECRET, \* process.env.PROXY_SECRET of the OpenAI pass-through, read at start
    hits,         \* the rate limiter's count for the client in the current window
    pc,           \* per request: "idle", "awaiting" (outbound call in flight), "done"
    req,          \* per request: the inbound request
    out,          \* per request: the outbound call issued for it, or None
    calls,        \* per request: how many outbound calls were issued for it
    completion,   \* per request: how its outbound call ended, or None
    resp          \* per request: the response sent to the client, or None

vars == <<PROXY_SECRET, hits, pc, req, out, calls, completion, resp>>

-----------------------------------------------------------------------------
(* Bounds *)

MaxReqs == 2        \* requests served concurrently
MaxTextLen == 3     \* tokens in an upstream generated text

-----------------------------------------------------------------------------
(* JavaScript values *)

None == [none |-> TRUE]

Undefined == [typ |-> "undefined"]
Str(s) == [typ |-> "string", s |-> s]
Lit(x) == Str(<<x>>)
Num(n) == [typ |-> "number", n |-> n]
Arr(items) == [typ |-> "array", items |-> items]
Obj(fields) == [typ |-> "object", fields |-> fields]

EmptyObject == [k \in {} |-> Undefined]

\* obj.key, undefined when the key is absent
Get(obj, key) == IF key \in DOMAIN obj THEN obj[key] ELSE Undefined

\* ToBoolean
Truthy(v) ==
    CASE v.typ = "undefined" -> FALSE
      [] v.typ = "string" -> v.s # <<>>
      [] v.typ = "number" -> v.n # 0
      [] OTHER -> TRUE

\* a || b
Or(a, b) == IF Truthy(a) THEN a ELSE b

\* a ?? b
Coalesce(a, b) == IF a.typ = "undefined" THEN b ELSE a

\* String(v) and template interpolation ${v}
String(v) ==
    CASE v.typ = "string" -> v.s
      [] v.typ = "number" -> <<ToString(v.n)>>
      [] v.typ = "undefined" -> <<"undefined">>
      [] OTHER -> <<"[object]">>

\* JSON.stringify of an object followed by the receiver's parse: keys whose
\* value is undefined are dropped
Json(obj) == [k \in {k \in DOMAIN obj : obj[k].typ # "undefined"} |-> obj[k]]

\* { ...a, ...v }: the keys of the object v win; spreading undefined adds nothing
Spread(a, v) == IF v.typ = "object" THEN v.fields @@ a ELSE a

EmptyStr == Str(<<>>)

-----------------------------------------------------------------------------
(* JSON.parse on a text of tokens.  The grammar: a number is a run of "1"  *)
(* digits, an array is "[" values separated by "," "]", an object is "{}". *)
(* Any other token makes the text invalid.                                 *)

ParseFail == [ok |-> FALSE]
ParseOk(v, rest) == [ok |-> TRUE, value |-> v, rest |-> rest]

RECURSIVE ParseDigits(_, _)
ParseDigits(s, n) ==
    IF s # <<>> /\ Head(s) = "1"
    THEN ParseDigits(Tail(s), 10 * n + 1)
    ELSE ParseOk(Num(n), s)

RECURSIVE ParseValue(_)
RECURSIVE ParseElems(_, _)
ParseValue(s) ==
    IF s = <<>> THEN ParseFail
    ELSE CASE Head(s) = "1" -> ParseDigits(Tail(s), 1)
           [] Head(s) = "[" ->
                IF Len(s) >= 2 /\ s[2] = "]"
                THEN ParseOk(Arr(<<>>), SubSeq(s, 3, Len(s)))
                ELSE ParseElems(Tail(s), <<>>)
           [] Head(s) = "{" ->
                IF Len(s) >= 2 /\ s[2] = "}"
                THEN ParseOk(Obj(EmptyObject), SubSeq(s, 3, Len(s)))
                ELSE ParseFail
           [] OTHER -> ParseFail

ParseElems(s, acc) ==
    LET v == ParseValue(s) IN
    IF ~v.ok \/ v.rest = <<>> THEN ParseFail
    ELSE CASE Head(v.rest) = "]" -> ParseOk(Arr(Append(acc, v.value)), Tail(v.rest))
           [] Head(v.rest) = "," -> ParseElems(Tail(v.rest), Append(acc, v.value))
           [] OTHER -> ParseFail

\* JSON.parse(text): ok with the value, or not ok (a SyntaxError is thrown)
JsonParse(s) ==
    LET v == ParseValue(s) IN
    IF v.ok /\ v.rest = <<>> THEN [ok |-> TRUE, value |-> v.value] ELSE ParseFail

-----------------------------------------------------------------------------
(* Program constants *)

GROQ_ENDPOINT == "https://api.groq.com/openai/v1/chat/completions"
OPENAI_ENDPOINT == "https://api.openai.com/v1/chat/completions"
OPENAI_IMAGES_ENDPOINT == "https://api.openai.com/v1/images/generations"
DEFAULT_MODEL == Lit("llama-3.1-8b-instant")
FORWARD_MODEL == Lit("llama-3.1-70b-versatile")
OPENAI_MODEL == Lit("gpt-3.5-turbo")
DEFAULT_SYSTEM_MSG == Lit("You are a helpful AI assistant.")

RateLimitMax == 120          \* limiter: max
ChatMaxTokens == 800         \* /chat: max_tokens default
ChatTemperature == 7         \* /chat (Groq): temperature default 0.7
OpenAiTemperature == 2       \* /chat (OpenAI): temperature default 0.2
McqCount == 5                \* /mcq: count default
McqMaxTokens == 1000
McqTemperature == 7
SummarizeMaxTokens == 600
SummarizeTemperature == 3
VideoMaxTokens == 700
VideoTemperature == 7
ConceptMaxTokens == 800
ConceptTemperature == 5
ImagesN == 1                 \* /images: n default
AxiosTimeout == 60000        \* axios: timeout in ms
NoTimeout == 0               \* node-fetch: no timeout option is passed

-----------------------------------------------------------------------------
(* What a handler does before its first await, and what it sends back *)

Respond(status, body) == [status |-> status, body |-> body]
Call(url, payload, timeout) == [url |-> url, payload |-> Json(payload), timeout |-> timeout]

\* the handler answered without calling upstream / issued its outbound call
Replied(r) == [resp |-> r, out |-> None]
Called(c) == [resp |-> None, out |-> c]

UserTurn(content) == [role |-> Lit("user"), content |-> content]
SystemTurn(content) == [role |-> Lit("system"), content |-> content]

\* err.message of the errors the handlers catch
FetchErrorMsg == Lit("request to upstream failed")
SyntaxErrorMsg == Lit("Unexpected token in JSON")
TypeErrorMsg == Lit("Cannot read properties of undefined")
TimeoutMsg == Lit("timeout of 60000ms exceeded")

\* r.ok
Ok(status) == status >= 200 /\ status <= 299

\* r.text(): the raw body.  The text of a JSON body carries the value it states.
JsonText(data) == [typ |-> "string", s |-> <<"{json}">>, json |-> data]
BodyText(body) == IF body.json THEN JsonText(body.data) ELSE body.raw

\* data.choices?.[0]
FirstChoice(data) ==
    IF "choices" \in DOMAIN data /\ Len(data.choices) > 0
    THEN data.choices[1] ELSE EmptyObject

\* data.choices?.[0]?.message?.content
MessageContent(data) ==
    LET c == FirstChoice(data) IN
    IF "message" \in DOMAIN c THEN Get(c.message, "content") ELSE Undefined

\* data.choices?.[0]?.text
LegacyText(data) == Get(FirstChoice(data), "text")

\* the parse failure answered as an error
ParseOrError(raw) ==
    LET p == JsonParse(raw.s) IN
    IF p.ok THEN Respond(200, p.value) ELSE Respond(500, [error |-> SyntaxErrorMsg])

\* try { res.json(JSON.parse(raw)) } catch { res.json({ raw }) }
ParseOrRaw(raw) ==
    LET p == JsonParse(raw.s) IN
    IF p.ok THEN Respond(200, p.value) ELSE Respond(200, [raw |-> raw])

\* catch (err) { res.status(500).json({ error: err.message }) }
Caught(msg) == Respond(500, [error |-> msg])

-----------------------------------------------------------------------------
(* Groq multi-feature server (part_000; /chat and /mcq also part_001) *)

\* ensureMessages with the prompt consulted before the messages
ensureMessagesPromptFirst(body) ==
    LET messages == Get(body, "messages")
        prompt == Get(body, "prompt")
        text == Get(body, "text")
    IN  IF Truthy(prompt) /\ prompt.typ = "string" THEN Arr(<<UserTurn(prompt)>>)
        ELSE IF Truthy(messages) /\ messages.typ = "array" THEN messages
        ELSE IF Truthy(text) /\ text.typ = "string" THEN Arr(<<UserTurn(text)>>)
        ELSE Arr(<<>>)

\* ensureMessages with the text consulted before the prompt
ensureMessagesTextFirst(body) ==
    LET messages == Get(body, "messages")
        prompt == Get(body, "prompt")
        text == Get(body, "text")
    IN  IF Truthy(messages) /\ messages.typ = "array" THEN messages
        ELSE IF Truthy(text) /\ text.typ = "string" THEN Arr(<<UserTurn(text)>>)
        ELSE IF Truthy(prompt) /\ prompt.typ = "string" THEN Arr(<<UserTurn(prompt)>>)
        ELSE Arr(<<>>)

ensureMessages(body) ==
    LET messages == Get(body, "messages")
        prompt == Get(body, "prompt")
        text == Get(body, "text")
    IN  IF Truthy(messages) /\ messages.typ = "array" THEN messages
        ELSE IF Truthy(prompt) /\ prompt.typ = "string" THEN Arr(<<UserTurn(prompt)>>)
        ELSE IF Truthy(text) /\ text.typ = "string" THEN Arr(<<UserTurn(text)>>)
        ELSE Arr(<<>>)

\* chatStart without the return in front of the 400 response: the handler
\* answers and goes on to call upstream
chatStartNoReturn(body) ==
    LET messages == ensureMessages(body) IN
    [resp |-> IF Len(messages.items) = 0
              THEN Respond(400, [error |-> Lit("No prompt/messages provided")])
              ELSE None,
     out |-> Call(GROQ_ENDPOINT,
                  [model |-> Or(Get(body, "model"), DEFAULT_MODEL),
                   messages |-> messages,
                   max_tokens |-> Or(Get(body, "max_tokens"), Num(ChatMaxTokens)),
                   temperature |-> Coalesce(Get(body, "temperature"), Num(ChatTemperature))],
                  NoTimeout)]

\* chatStart with the messages kept in a module-level array that every
\* request appends to
chatStartSharedMessages(body) ==
    LET own == ensureMessages(body)
        earlier == {r \in DOMAIN out : out[r] # None /\ req[r].route = "/chat"}
        messages == IF earlier = {} THEN own
                    ELSE Arr(out[CHOOSE r \in earlier : TRUE].payload.messages.items
                             \o own.items)
    IN  IF Len(messages.items) = 0
        THEN Replied(Respond(400, [error |-> Lit("No prompt/messages provided")]))
        ELSE Called(Call(GROQ_ENDPOINT,
                         [model |-> Or(Get(body, "model"), DEFAULT_MODEL),
                          messages |-> messages,
                          max_tokens |-> Or(Get(body, "max_tokens"), Num(ChatMaxTokens)),
                          temperature |-> Coalesce(Get(body, "temperature"),
                                                   Num(ChatTemperature))],
                         NoTimeout))

chatStart(body) ==
    LET messages == ensureMessages(body) IN
    IF Len(messages.items) = 0
    THEN Replied(Respond(400, [error |-> Lit("No prompt/messages provided")]))
    ELSE Called(Call(GROQ_ENDPOINT,
                     [model |-> Or(Get(body, "model"), DEFAULT_MODEL),
                      messages |-> messages,
                      max_tokens |-> Or(Get(body, "max_tokens"), Num(ChatMaxTokens)),
                      temperature |-> Coalesce(Get(body, "temperature"), Num(ChatTemperature))],
                     NoTimeout))

UpstreamFailed(c) ==
    Respond(500, [error |-> Lit("Groq API error"), details |-> BodyText(c.body)])

chatFinish(c) ==
    IF c.kind # "reply" THEN Caught(FetchErrorMsg)
    ELSE IF ~Ok(c.status) THEN UpstreamFailed(c)
    ELSE IF ~c.body.json THEN Caught(SyntaxErrorMsg)
    ELSE LET data == c.body.data
             reply == Or(Or(MessageContent(data), LegacyText(data)),
                         Lit("No response from AI"))
         IN  Respond(200, [answer |-> reply])

mcqPrompt(count, topic) ==
    Str(<<"Generate ">> \o String(count) \o <<" multiple-choice questions about ">>
        \o String(topic) \o <<". Return ONLY valid JSON.">>)

mcqStart(body) ==
    LET topic == Or(Or(Get(body, "topic"), Get(body, "prompt")), EmptyStr)
        count == Or(Get(body, "count"), Num(McqCount))
    IN  IF ~Truthy(topic)
        THEN Replied(Respond(400, [error |-> Lit("topic required")]))
        ELSE Called(Call(GROQ_ENDPOINT,
                         [model |-> DEFAULT_MODEL,
                          messages |-> Arr(<<UserTurn(mcqPrompt(count, topic))>>),
                          max_tokens |-> Num(McqMaxTokens),
                          temperature |-> Num(McqTemperature)],
                         NoTimeout))

mcqFinish(c) ==
    IF c.kind # "reply" THEN Caught(FetchErrorMsg)
    ELSE IF ~Ok(c.status) THEN UpstreamFailed(c)
    ELSE IF ~c.body.json THEN Caught(SyntaxErrorMsg)
    ELSE LET data == c.body.data
             raw == Or(Or(MessageContent(data), LegacyText(data)), EmptyStr)
         IN  ParseOrRaw(raw)

summarizePrompt(input) ==
    Str(<<"Summarize the following text in clear, simple bullet points: ">>
        \o String(input))

summarizeStart(body) ==
    LET input == Or(Or(Get(body, "text"), Get(body, "prompt")), EmptyStr) IN
    IF ~Truthy(input)
    THEN Replied(Respond(400, [error |-> Lit("No text provided")]))
    ELSE Called(Call(GROQ_ENDPOINT,
                     [model |-> DEFAULT_MODEL,
                      messages |-> Arr(<<UserTurn(summarizePrompt(input))>>),
                      max_tokens |-> Num(SummarizeMaxTokens),
                      temperature |-> Num(SummarizeTemperature)],
                     NoTimeout))

summarizeFinish(c) ==
    IF c.kind # "reply" THEN Caught(FetchErrorMsg)
    ELSE IF ~c.body.json THEN Caught(SyntaxErrorMsg)
    ELSE LET reply == Or(MessageContent(c.body.data), Lit("No summary generated"))
         IN  Respond(200, [summary |-> reply])

videoPrompt(input) ==
    Str(<<"Explain this concept in a script for a 2-minute educational video. Concept: ">>
        \o String(input))

videoStart(body) ==
    LET input == Or(Get(body, "text"), EmptyStr) IN
    IF ~Truthy(input)
    THEN Replied(Respond(400, [error |-> Lit("No input provided")]))
    ELSE Called(Call(GROQ_ENDPOINT,
                     [model |-> DEFAULT_MODEL,
                      messages |-> Arr(<<UserTurn(videoPrompt(input))>>),
                      max_tokens |-> Num(VideoMaxTokens),
                      temperature |-> Num(VideoTemperature)],
                     NoTimeout))

videoFinish(c) ==
    IF c.kind # "reply" THEN Caught(FetchErrorMsg)
    ELSE IF ~c.body.json THEN Caught(SyntaxErrorMsg)
    ELSE LET script == Or(MessageContent(c.body.data), Lit("No script generated"))
         IN  Respond(200, [script |-> script])

conceptPrompt(concept) ==
    Str(<<"Build a structured concept map for: ">> \o String(concept)
        \o <<". Return as JSON.">>)

conceptMapStart(body) ==
    LET concept == Or(Get(body, "text"), EmptyStr) IN
    IF ~Truthy(concept)
    THEN Replied(Respond(400, [error |-> Lit("No concept provided")]))
    ELSE Called(Call(GROQ_ENDPOINT,
                     [model |-> DEFAULT_MODEL,
                      messages |-> Arr(<<UserTurn(conceptPrompt(concept))>>),
                      max_tokens |-> Num(ConceptMaxTokens),
                      temperature |-> Num(ConceptTemperature)],
                     NoTimeout))

conceptMapFinish(c) ==
    IF c.kind # "reply" THEN Caught(FetchErrorMsg)
    ELSE IF ~c.body.json THEN Caught(SyntaxErrorMsg)
    ELSE LET raw == Or(MessageContent(c.body.data), Str(<<"{", "}">>))
         IN  ParseOrRaw(raw)

-----------------------------------------------------------------------------
(* OpenAI pass-through server (server.js 1-104) *)

\* express-rate-limit: count is the client's requests in the window, this one included
limiter(count) ==
    IF count > RateLimitMax
    THEN Respond(429, Lit("Too many requests, please try again later."))
    ELSE None

\* maybeRequireSecret testing only that a secret header is present
maybeRequireSecretAnyValue(headers) ==
    IF ~Truthy(PROXY_SECRET) THEN None
    ELSE LET found == Or(Get(headers, "x-proxy-secret"), Get(headers, "x-app-key")) IN
         IF ~Truthy(found)
         THEN Respond(401, [error |-> Lit("Missing or invalid proxy secret")])
         ELSE None

\* None when next() is called, else the response sent
maybeRequireSecret(headers) ==
    IF ~Truthy(PROXY_SECRET) THEN None
    ELSE LET found == Or(Get(headers, "x-proxy-secret"), Get(headers, "x-app-key")) IN
         IF ~Truthy(found) \/ String(found) # PROXY_SECRET.s
         THEN Respond(401, [error |-> Lit("Missing or invalid proxy secret")])
         ELSE None

oaChatBody(payload) ==
    Spread([model |-> Or(Get(payload, "model"), OPENAI_MODEL),
            messages |-> Or(Get(payload, "messages"),
                            Arr(<<UserTurn(Str(String(Or(Get(payload, "prompt"), EmptyStr))))>>)),
            max_tokens |-> Coalesce(Coalesce(Get(payload, "max_tokens"),
                                             Get(payload, "max_tokens")),
                                    Num(ChatMaxTokens)),
            temperature |-> Coalesce(Get(payload, "temperature"), Num(OpenAiTemperature))],
           Get(payload, "extra"))

oaChatStart(payload) == Called(Call(OPENAI_ENDPOINT, oaChatBody(payload), AxiosTimeout))

\* axios: resp.data is the parsed body, or the raw text when it is not JSON
AxiosData(body) == IF body.json THEN body.data ELSE body.raw

oaChatFinish(c) ==
    CASE c.kind = "reply" /\ Ok(c.status) -> Respond(c.status, AxiosData(c.body))
      [] c.kind = "reply" /\ ~Ok(c.status) ->
            \* err.response.status || 500, err.response.data || { error: ... }
            Respond(c.status,
                    IF c.body.json \/ Truthy(c.body.raw)
                    THEN AxiosData(c.body)
                    ELSE [error |-> Lit("Request failed with status code")])
      [] c.kind = "timeout" -> Respond(500, [error |-> TimeoutMsg])
      [] OTHER -> Respond(500, [error |-> FetchErrorMsg])

\* const { prompt, size = "512x512", n = 1 } = req.body
imagesBody(body) ==
    [prompt |-> Get(body, "prompt"),
     size |-> IF Get(body, "size").typ = "undefined" THEN Lit("512x512") ELSE body.size,
     n |-> IF Get(body, "n").typ = "undefined" THEN Num(ImagesN) ELSE body.n]

imagesStart(body) == Called(Call(OPENAI_IMAGES_ENDPOINT, imagesBody(body), AxiosTimeout))

imagesFinish(c) ==
    CASE c.kind = "reply" /\ Ok(c.status) -> Respond(c.status, AxiosData(c.body))
      [] c.kind = "reply" /\ ~Ok(c.status) ->
            Respond(c.status,
                    IF c.body.json \/ Truthy(c.body.raw)
                    THEN AxiosData(c.body)
                    ELSE [error |-> Lit("Request failed with status code")])
      [] c.kind = "timeout" -> Respond(500, [error |-> TimeoutMsg])
      [] OTHER -> Respond(500, [error |-> FetchErrorMsg])

-----------------------------------------------------------------------------
(* Groq forwarder (server.js 106-148) *)

fwdChatStart(body) ==
    Called(Call(GROQ_ENDPOINT,
                [model |-> FORWARD_MODEL, messages |-> Get(body, "messages")],
                NoTimeout))

fwdChatFinish(c) ==
    IF c.kind # "reply" THEN Caught(FetchErrorMsg)
    ELSE IF ~c.body.json THEN Caught(SyntaxErrorMsg)
    ELSE Respond(200, c.body.data)

-----------------------------------------------------------------------------
(* Groq utility server (server.js 151-253) *)

Threw(msg) == [threw |-> TRUE, message |-> msg]
Returned(v) == [threw |-> FALSE, value |-> v]

\* callGroq up to its await fetch
callGroqCall(prompt, systemMsg) ==
    Call(GROQ_ENDPOINT,
         [model |-> FORWARD_MODEL,
          messages |-> Arr(<<SystemTurn(systemMsg), Json(UserTurn(prompt))>>)],
         NoTimeout)

\* callGroq after its await fetch
callGroq(c) ==
    IF c.kind # "reply" THEN Threw(FetchErrorMsg)
    ELSE IF ~c.body.json THEN Threw(SyntaxErrorMsg)
    ELSE LET data == c.body.data IN
         IF ~Ok(c.status) THEN Threw(JsonText(data))
         ELSE IF "choices" \notin DOMAIN data \/ Len(data.choices) = 0
                 \/ "message" \notin DOMAIN data.choices[1]
         THEN Threw(TypeErrorMsg)
         ELSE Returned(Get(data.choices[1].message, "content"))

askStart(body) == Called(callGroqCall(Get(body, "prompt"), DEFAULT_SYSTEM_MSG))

askFinish(c) ==
    LET r == callGroq(c) IN
    IF r.threw THEN Caught(r.message) ELSE Respond(200, Json([reply |-> r.value]))

-----------------------------------------------------------------------------
(* Routing *)

OaChat == "openai:/chat"
Images == "openai:/images"
FwdChat == "forward:/chat"
Ask == "util:/ask"
Chat == "/chat"
Mcq == "/mcq"
Summarize == "/summarize"
Video == "/video-explainer"
ConceptMap == "/concept-map"

Routes == {OaChat, Images, FwdChat, Ask, Chat, Mcq, Summarize, Video, ConceptMap}

\* app.use(limiter) of the OpenAI pass-through server
LimitedRoutes == {OaChat, Images}

\* the handler of q's route up to its first await; count is the limiter's count
Start(q, count) ==
    CASE q.route = OaChat ->
            IF limiter(count) # None THEN Replied(limiter(count))
            ELSE IF maybeRequireSecret(q.headers) # None
            THEN Replied(maybeRequireSecret(q.headers))
            ELSE oaChatStart(q.body)
      [] q.route = Images ->
            IF limiter(count) # None THEN Replied(limiter(count))
            ELSE IF maybeRequireSecret(q.headers) # None
            THEN Replied(maybeRequireSecret(q.headers))
            ELSE imagesStart(q.body)
      [] q.route = FwdChat -> fwdChatStart(q.body)
      [] q.route = Ask -> askStart(q.body)
      [] q.route = Chat -> chatStart(q.body)
      [] q.route = Mcq -> mcqStart(q.body)
      [] q.route = Summarize -> summarizeStart(q.body)
      [] q.route = Video -> videoStart(q.body)
      [] q.route = ConceptMap -> conceptMapStart(q.body)

\* the rest of the handler, run when the outbound call ends as c
Finish(route, c) ==
    CASE route = OaChat -> oaChatFinish(c)
      [] route = Images -> imagesFinish(c)
      [] route = FwdChat -> fwdChatFinish(c)
      [] route = Ask -> askFinish(c)
      [] route = Chat -> chatFinish(c)
      [] route = Mcq -> mcqFinish(c)
      [] route = Summarize -> summarizeFinish(c)
      [] route = Video -> videoFinish(c)
      [] route = ConceptMap -> conceptMapFinish(c)

-----------------------------------------------------------------------------
(* Inputs: client requests and upstream replies *)

\* an object key, present unless the value is undefined
Field(k, v) == IF v.typ = "undefined" THEN EmptyObject ELSE (k :> v)

Request(route, headers, body) == [route |-> route, headers |-> headers, body |-> body]

TurnsA == Arr(<<UserTurn(Lit("hi"))>>)
TurnsB == Arr(<<SystemTurn(Lit("be brief")), UserTurn(Lit("hi")),
                [role |-> Lit("assistant"), content |-> Lit("hello")]>>)
TurnsC == Arr(<<UserTurn(Lit("other"))>>)

MessagesValues == {Undefined, Arr(<<>>), TurnsA, TurnsB}
PromptValues == {Undefined, EmptyStr, Lit("X"), Num(7)}
TextValues == {Undefined, Lit("T")}
ModelValues == {Undefined, EmptyStr, Lit("my-model")}
MaxTokensValues == {Undefined, Num(0), Num(50)}
TemperatureValues == {Undefined, Num(0), Num(15)}
ExtraValues == {Undefined, Obj("messages" :> TurnsC), Obj("temperature" :> Num(9))}

\* bodies that vary what the turns are built from
TurnBodies ==
    {Field("messages", m) @@ Field("prompt", p) @@ Field("text", t) @@ Field("extra", e) :
        m \in MessagesValues, p \in PromptValues, t \in TextValues, e \in ExtraValues}

\* bodies that vary the generation parameters
ParamBodies ==
    {Field("prompt", Lit("X")) @@ Field("model", m) @@ Field("max_tokens", k)
        @@ Field("temperature", t) :
        m \in ModelValues, k \in MaxTokensValues, t \in TemperatureValues}

TemplateBodies ==
    {Field("topic", a) @@ Field("prompt", p) @@ Field("text", t) @@ Field("count", n) :
        a \in {Undefined, Lit("Photosynthesis")}, p \in {Undefined, Lit("X")},
        t \in TextValues, n \in {Undefined, Num(3)}}

NoHeaders == EmptyObject
HeadersValues ==
    {NoHeaders, "x-proxy-secret" :> Lit("s3cret"), "x-proxy-secret" :> Lit("wrong"),
     "x-app-key" :> Lit("s3cret"), "x-app-key" :> Lit("wrong"),
     ("x-proxy-secret" :> Lit("wrong")) @@ ("x-app-key" :> Lit("s3cret"))}

PromptX == Field("prompt", Lit("X"))

\* one well-formed request per route
CoreRequests ==
    {Request(OaChat, "x-proxy-secret" :> Lit("s3cret"), PromptX),
     Request(FwdChat, NoHeaders, Field("messages", TurnsA)),
     Request(Ask, NoHeaders, PromptX),
     Request(Chat, NoHeaders, PromptX),
     Request(Mcq, NoHeaders, Field("topic", Lit("Photosynthesis")) @@ Field("count", Num(3))),
     Request(Summarize, NoHeaders, Field("text", Lit("T"))),
     Request(Video, NoHeaders, Field("text", Lit("T"))),
     Request(ConceptMap, NoHeaders, Field("text", Lit("T")))}

WideRequests ==
    CoreRequests
    \cup {Request(rt, h, PromptX) : rt \in {OaChat, Images}, h \in HeadersValues}
    \cup {Request(Images, "x-app-key" :> Lit("s3cret"), PromptX @@ Field("n", Num(2)))}
    \cup {Request(rt, "x-proxy-secret" :> Lit("s3cret"), b) :
            rt \in {OaChat}, b \in TurnBodies \cup ParamBodies}
    \cup {Request(rt, NoHeaders, b) :
            rt \in {FwdChat, Chat, Ask}, b \in TurnBodies \cup ParamBodies}
    \cup {Request(rt, NoHeaders, b) :
            rt \in {Mcq, Summarize, Video, ConceptMap}, b \in TemplateBodies}

\* the requests of the concurrent specification
Requests ==
    {Request(OaChat, h, PromptX) :
        h \in {"x-proxy-secret" :> Lit("s3cret"), "x-proxy-secret" :> Lit("wrong")}}
    \cup {Request(Images, h, PromptX) : h \in {NoHeaders, "x-app-key" :> Lit("wrong")}}
    \cup {Request(Chat, NoHeaders, b) : b \in {EmptyObject, PromptX}}
    \cup {Request(Mcq, NoHeaders, b) :
            b \in {EmptyObject, Field("topic", Lit("Photosynthesis"))}}
    \cup {Request(Summarize, NoHeaders, Field("text", Lit("T")))}

\* generated texts: every token sequence up to MaxTextLen
TextTokens == {"[", "]", "1", ","}
RECURSIVE TextsOfLen(_)
TextsOfLen(n) ==
    IF n = 0 THEN {<<>>}
    ELSE {Append(t, k) : t \in TextsOfLen(n - 1), k \in TextTokens}
RECURSIVE TextsUpTo(_)
TextsUpTo(n) == IF n = 0 THEN TextsOfLen(0) ELSE TextsOfLen(n) \cup TextsUpTo(n - 1)
Texts == TextsUpTo(MaxTextLen)

ContentValues == {Undefined} \cup {Str(t) : t \in Texts} \cup {Lit("plain words")}
LegacyValues == {Undefined, EmptyStr, Lit("legacy words"), Str(<<"[", "]">>)}

Choices ==
    {Field("text", l) : l \in LegacyValues}
    \cup {("message" :> Field("content", c)) @@ Field("text", l) :
            c \in ContentValues, l \in LegacyValues}

JsonBody(data) == [json |-> TRUE, data |-> data]
RawBody(raw) == [json |-> FALSE, raw |-> raw]

ErrorData == "error" :> Lit("bad key")

WideBodies ==
    {RawBody(Lit("<html>")), RawBody(EmptyStr), JsonBody(EmptyObject), JsonBody(ErrorData),
     JsonBody("choices" :> <<>>)}
    \cup {JsonBody("choices" :> <<ch>>) : ch \in Choices}

Statuses == {200, 401}
Reply(status, body) == [kind |-> "reply", status |-> status, body |-> body]

WideReplies == {Reply(st, b) : st \in Statuses, b \in WideBodies}

\* the replies tried against every request
Replies ==
    {Reply(200, JsonBody("choices" :> <<"message" :> Field("content", Lit("plain words"))>>)),
     Reply(200, JsonBody("choices" :> <<"message" :> Field("content", Str(<<"[", "]">>))>>)),
     Reply(401, JsonBody(ErrorData))}

RepliesFor(q) == IF q \in CoreRequests THEN WideReplies ELSE Replies

-----------------------------------------------------------------------------
(* The servers *)

Reqs == 1..MaxReqs

Init ==
    /\ PROXY_SECRET \in {EmptyStr, Lit("s3cret")}
    /\ hits \in {0, RateLimitMax - 1}
    /\ pc = [r \in Reqs |-> "idle"]
    /\ req = [r \in Reqs |-> None]
    /\ out = [r \in Reqs |-> None]
    /\ calls = [r \in Reqs |-> 0]
    /\ completion = [r \in Reqs |-> None]
    /\ resp = [r \in Reqs |-> None]

\* A request arrives: the middleware and the handler run up to the first await.
Receive(r, q) ==
    /\ pc[r] = "idle"
    /\ LET count == IF q.route \in LimitedRoutes THEN hits + 1 ELSE hits
           s == Start(q, count)
       IN  /\ hits' = count
           /\ req' = [req EXCEPT ![r] = q]
           /\ out' = [out EXCEPT ![r] = s.out]
           /\ resp' = [resp EXCEPT ![r] = s.resp]
           /\ calls' = [calls EXCEPT ![r] = IF s.out # None THEN @ + 1 ELSE @]
           /\ pc' = [pc EXCEPT ![r] = IF s.out # None THEN "awaiting" ELSE "done"]
    /\ UNCHANGED <<PROXY_SECRET, completion>>

\* The outbound call of r ends as c: the handler resumes and answers.
Complete(r, c) ==
    /\ pc[r] = "awaiting"
    /\ completion' = [completion EXCEPT ![r] = c]
    /\ resp' = [resp EXCEPT ![r] = IF @ = None THEN Finish(req[r].route, c) ELSE @]
    /\ pc' = [pc EXCEPT ![r] = "done"]
    /\ UNCHANGED <<PROXY_SECRET, hits, req, out, calls>>

\* The upstream API answers.
UpstreamReply(r, rep) == Complete(r, rep)

\* The connection to the upstream API fails.
FetchError(r) == Complete(r, [kind |-> "error"])

\* The timeout the call was issued with expires.
Timeout(r) ==
    /\ out[r] # None
    /\ out[r].timeout > 0
    /\ Complete(r, [kind |-> "timeout"])

\* The limiter's window ends.
WindowReset ==
    /\ hits > 0
    /\ hits' = 0
    /\ UNCHANGED <<PROXY_SECRET, pc, req, out, calls, completion, resp>>

Next ==
    \/ \E r \in Reqs : pc[r] = "idle" /\ \E q \in Requests : Receive(r, q)
    \/ \E r \in Reqs : pc[r] = "awaiting" /\ \E rep \in Replies : UpstreamReply(r, rep)
    \/ \E r \in Reqs : FetchError(r)
    \/ \E r \in Reqs : Timeout(r)
    \/ WindowReset

Spec == Init /\ [][Next]_vars

\* One request at a time, over the wide inputs.
NextOne ==
    \/ pc[1] = "idle" /\ \E q \in WideRequests : Receive(1, q)
    \/ pc[1] = "awaiting" /\ \E rep \in RepliesFor(req[1]) : UpstreamReply(1, rep)
    \/ FetchError(1)
    \/ Timeout(1)
    \/ WindowReset

PipelineSpec == Init /\ [][NextOne]_vars

\* The timer of a call issued with a timeout does fire; nothing obliges the
\* upstream API to answer.
FairSpec == Spec /\ \A r \in Reqs : WF_vars(Timeout(r))

-----------------------------------------------------------------------------
(* Properties *)

Received(r) == pc[r] # "idle"
Issued(r) == out[r] # None
Done(r) == pc[r] = "done"

\* the body carries a sequence of turns
HasTurns(body) == "messages" \in DOMAIN body /\ body.messages.typ = "array"

\* the body's extra object carries key k
ExtraHas(body, k) ==
    "extra" \in DOMAIN body /\ body.extra.typ = "object" /\ k \in DOMAIN body.extra.fields

\* a non-empty string
IsText(v) == v.typ = "string" /\ v.s # <<>>

ChatRoutes == {OaChat, FwdChat, Chat}

\* C1 as stated: on every /chat route, when the body carries a sequence of
\* turns, the turns of the outbound call are exactly that sequence.
C1_AsStated ==
    \A r \in Reqs :
        (Received(r) /\ req[r].route \in ChatRoutes /\ HasTurns(req[r].body) /\ Issued(r))
            => Get(out[r].payload, "messages") = req[r].body.messages

\* C1: on every /chat route, when the body carries a sequence of turns, the
\* turns of the outbound call are exactly that sequence, whatever prompt and
\* text are, except that on the OpenAI pass-through a messages key inside
\* the body's extra object replaces them; on the Groq /chat routes a
\* non-empty sequence always leads to an outbound call.
C1_TurnsVerbatim ==
    \A r \in Reqs :
        (Received(r) /\ req[r].route \in ChatRoutes /\ HasTurns(req[r].body))
            => /\ Issued(r) =>
                    Get(out[r].payload, "messages") =
                        IF req[r].route = OaChat /\ ExtraHas(req[r].body, "messages")
                        THEN req[r].body.extra.fields.messages
                        ELSE req[r].body.messages
               /\ (req[r].route \in {FwdChat, Chat} /\ Len(req[r].body.messages.items) > 0)
                    => Issued(r)

\* a /chat call went out with the three turns of the body, prompt and text present too
C1_Witness ==
    \E r \in Reqs :
        /\ Received(r) /\ req[r].route = Chat /\ Issued(r)
        /\ Get(req[r].body, "messages") = TurnsB
        /\ IsText(Get(req[r].body, "prompt")) /\ IsText(Get(req[r].body, "text"))
        /\ out[r].payload.messages = TurnsB

\* C2 as stated: with no turns sequence, a prompt string X gives exactly one
\* turn, user/X, and no other turn is added (on /chat and on /ask).
C2_AsStated ==
    \A r \in Reqs :
        (Received(r) /\ req[r].route \in {Chat, Ask} /\ ~HasTurns(req[r].body)
         /\ IsText(Get(req[r].body, "prompt")))
            => /\ Issued(r)
               /\ out[r].payload.messages = Arr(<<UserTurn(req[r].body.prompt)>>)

\* the turns C2 expects of a request without a turns sequence, per route
C2_Expected(route, body) ==
    LET prompt == Get(body, "prompt")
        text == Get(body, "text")
    IN  CASE route = Chat ->
                IF IsText(prompt) THEN Arr(<<UserTurn(prompt)>>)
                ELSE IF IsText(text) THEN Arr(<<UserTurn(text)>>)
                ELSE None
          [] route = Ask ->
                IF IsText(prompt)
                THEN Arr(<<SystemTurn(DEFAULT_SYSTEM_MSG), UserTurn(prompt)>>)
                ELSE None
          [] route = OaChat ->
                IF IsText(prompt) /\ ~ExtraHas(body, "messages")
                THEN Arr(<<UserTurn(prompt)>>)
                ELSE None
          [] OTHER -> None

\* C2: with no turns sequence, on the Groq /chat a non-empty prompt string X
\* gives exactly one turn user/X even when text is present, and without a
\* usable prompt a non-empty text string T gives exactly one turn user/T; on
\* /ask a prompt X gives two turns, the fixed system turn and then user/X; on
\* the OpenAI pass-through a prompt X gives exactly one turn user/X unless
\* extra carries messages, and text is never consulted.
C2_SingleUserTurn ==
    \A r \in Reqs :
        (Received(r) /\ req[r].route \in {Chat, Ask, OaChat} /\ ~HasTurns(req[r].body)
         /\ C2_Expected(req[r].route, req[r].body) # None)
            => /\ Issued(r) => out[r].payload.messages = C2_Expected(req[r].route, req[r].body)
               /\ req[r].route \in {Chat, Ask} => Issued(r)

\* a Groq /chat call went out with the single turn user/X, text being present too
C2_Witness ==
    \E r \in Reqs :
        /\ Received(r) /\ req[r].route = Chat /\ Issued(r)
        /\ ~HasTurns(req[r].body)
        /\ Get(req[r].body, "prompt") = Lit("X") /\ Get(req[r].body, "text") = Lit("T")
        /\ out[r].payload.messages = Arr(<<UserTurn(Lit("X"))>>)

\* C3 as stated: a /chat request with neither turns, prompt nor text is
\* answered 400 and no outbound call is made for it.
C3_AsStated ==
    \A r \in Reqs :
        (Received(r) /\ req[r].route \in ChatRoutes
         /\ DOMAIN req[r].body \cap {"messages", "prompt", "text"} = {})
            => /\ calls[r] = 0
               /\ resp[r] # None /\ resp[r].status = 400

\* the outbound call of r was answered by the upstream API
Answered(r) == Done(r) /\ completion[r] # None /\ completion[r].kind = "reply"

MultiRoutes == {Chat, Mcq, Summarize, Video, ConceptMap}

\* C4 as stated: when the upstream call returns a non-success status, the
\* client receives an error, never a success-shaped result (the endpoints
\* of the multi-feature server).
C4_AsStated ==
    \A r \in Reqs :
        (Answered(r) /\ req[r].route \in MultiRoutes /\ ~Ok(completion[r].status))
            => /\ ~Ok(resp[r].status)
               /\ DOMAIN resp[r].body \cap {"answer", "summary", "script", "raw"} = {}

\* JSON.stringify of a parsed value, as tokens
RECURSIVE DigitsOf(_)
DigitsOf(n) == IF n = 0 THEN <<>> ELSE Append(DigitsOf(n \div 10), ToString(n % 10))

RECURSIVE JsonStringify(_)
RECURSIVE JoinItems(_)
JsonStringify(v) ==
    CASE v.typ = "number" -> DigitsOf(v.n)
      [] v.typ = "array" -> <<"[">> \o JoinItems(v.items) \o <<"]">>
      [] v.typ = "object" -> <<"{", "}">>

JoinItems(items) ==
    IF items = <<>> THEN <<>>
    ELSE IF Len(items) = 1 THEN JsonStringify(items[1])
    ELSE JsonStringify(items[1]) \o <<",">> \o JoinItems(Tail(items))

StructuredRoutes == {Mcq, ConceptMap}

\* the generated text of a successful upstream response: the message
\* content, or on /mcq the legacy text when there is no content
GeneratedText(route, data) ==
    IF IsText(MessageContent(data)) THEN MessageContent(data)
    ELSE IF route = Mcq /\ IsText(LegacyText(data)) THEN LegacyText(data)
    ELSE Undefined

C6_AsStated ==
    \A r \in Reqs :
        (Answered(r) /\ req[r].route \in {Chat, Ask} /\ Ok(completion[r].status)
         /\ completion[r].body.json)
            => /\ resp[r].status = 200
               /\ req[r].route = Chat =>
                    resp[r].body =
                        [answer |-> Or(Or(MessageContent(completion[r].body.data),
                                          LegacyText(completion[r].body.data)),
                                       Lit("No response from AI"))]

\* C9 as stated: on the Groq /chat each generation parameter of the outbound
\* payload is the caller's value when supplied, the default when absent (an
\* empty model name counting as absent).
C9_AsStated ==
    \A r \in Reqs :
        (Received(r) /\ req[r].route = Chat /\ Issued(r))
            => /\ out[r].payload.model =
                    IF IsText(Get(req[r].body, "model")) THEN req[r].body.model
                    ELSE DEFAULT_MODEL
               /\ out[r].payload.max_tokens =
                    Coalesce(Get(req[r].body, "max_tokens"), Num(ChatMaxTokens))
               /\ out[r].payload.temperature =
                    Coalesce(Get(req[r].body, "temperature"), Num(ChatTemperature))

\* C7 as stated: every answered request triggered exactly one outbound call.
C7_AsStated == \A r \in Reqs : Done(r) => calls[r] = 1

\* C7: every request triggers at most one outbound call: none when the
\* middleware or the handler's validation answers it first (429, 401, 400),
\* exactly one otherwise; while the call is in flight nothing has been sent
\* to the client, and once it has ended no further call is made.
C7_AtMostOneCall ==
    \A r \in Reqs :
        /\ calls[r] <= 1
        /\ pc[r] = "idle" => calls[r] = 0 /\ resp[r] = None
        /\ pc[r] = "awaiting" => calls[r] = 1 /\ resp[r] = None /\ completion[r] = None
        /\ Done(r) =>
            /\ resp[r] # None
            /\ \/ calls[r] = 1 /\ completion[r] # None
               \/ calls[r] = 0 /\ completion[r] = None /\ resp[r].status \in {400, 401, 429}

\* one request was answered after its single call failed upstream, another
\* was refused with 400 without a call
C7_Witness ==
    \E r1, r2 \in Reqs :
        /\ Answered(r1) /\ ~Ok(completion[r1].status) /\ calls[r1] = 1
        /\ Done(r2) /\ calls[r2] = 0 /\ resp[r2].status = 400

\* C8 as stated: no request stays pending forever.
C8_AsStated == \A r \in Reqs : (pc[r] = "awaiting") ~> (pc[r] = "done")

\* the limiter answered r
LimiterRefused(r) ==
    /\ Received(r) /\ req[r].route \in LimitedRoutes
    /\ calls[r] = 0 /\ resp[r] # None /\ resp[r].status = 429

\* C10 as stated: two requests with the same content have the same outbound
\* payload and, when their calls end the same way, the same response.
C10_AsStated ==
    \A r1, r2 \in Reqs :
        (Received(r1) /\ Received(r2) /\ req[r1] = req[r2])
            => /\ out[r1] = out[r2]
               /\ (Done(r1) /\ Done(r2) /\ completion[r1] = completion[r2])
                    => resp[r1] = resp[r2]

\* C10: two requests with the same content have the same outbound payload
\* and, when their calls end the same way, the same response, unless the
\* rate limiter of the OpenAI pass-through, which counts the client's
\* requests of the window, answered one of them 429.
C10_Independent ==
    \A r1, r2 \in Reqs :
        (Received(r1) /\ Received(r2) /\ req[r1] = req[r2]
         /\ ~LimiterRefused(r1) /\ ~LimiterRefused(r2))
            => /\ out[r1] = out[r2]
               /\ (Done(r1) /\ Done(r2) /\ completion[r1] = completion[r2])
                    => resp[r1] = resp[r2]

\* two /chat requests with the same content were both answered, after the
\* same upstream reply, with the same response
C10_Witness ==
    \E r1, r2 \in Reqs :
        /\ r1 # r2 /\ req[r1] = req[r2]
        /\ Answered(r1) /\ Answered(r2) /\ completion[r1] = completion[r2]
        /\ req[r1].route = Chat /\ resp[r1] = resp[r2]

ProtectedRoutes == {OaChat, Images}

\* neither secret header carries the configured secret: each one is missing
\* or differs from it
BadSecret(headers) ==
    \A k \in {"x-proxy-secret", "x-app-key"} :
        k \in DOMAIN headers => headers[k] # PROXY_SECRET

\* r was answered 401 without any outbound call
SecretRefused(r) ==
    Received(r) /\ calls[r] = 0 /\ out[r] = None /\ resp[r] # None /\ resp[r].status = 401

\* C11 as stated: with a secret configured, every request to a protected
\* route whose secret header is missing or differs from the secret is
\* answered 401 and makes no outbound call; with no secret configured no
\* request is refused by the secret check.
C11_AsStated ==
    \A r \in Reqs :
        (Received(r) /\ req[r].route \in ProtectedRoutes)
            => /\ (Truthy(PROXY_SECRET) /\ BadSecret(req[r].headers)) => SecretRefused(r)
               /\ ~Truthy(PROXY_SECRET) => ~SecretRefused(r)

\* C11: with a secret configured, every request to a protected route whose
\* secret header is missing or differs from the secret makes no outbound
\* call and is answered 401, or 429 when the rate limiter, which runs before
\* the secret check, refuses it; with no secret configured every request
\* the rate limiter lets through reaches the handler and makes its outbound
\* call.
C11_SecretRequired ==
    \A r \in Reqs :
        (Received(r) /\ req[r].route \in ProtectedRoutes)
            => /\ (Truthy(PROXY_SECRET) /\ BadSecret(req[r].headers))
                    => /\ calls[r] = 0 /\ ~Issued(r)
                       /\ SecretRefused(r) \/ LimiterRefused(r)
               /\ ~Truthy(PROXY_SECRET)
                    => /\ ~SecretRefused(r)
                       /\ (Issued(r) /\ calls[r] = 1) \/ LimiterRefused(r)

\* with a secret configured, a /images request carrying a wrong x-app-key
\* was answered 401 without an outbound call, while a /chat request carrying
\* the right x-proxy-secret made its call
C11_Witness ==
    \E r1, r2 \in Reqs :
        /\ Truthy(PROXY_SECRET)
        /\ Received(r1) /\ req[r1].route = Images
        /\ "x-app-key" \in DOMAIN req[r1].headers /\ BadSecret(req[r1].headers)
        /\ SecretRefused(r1)
        /\ Received(r2) /\ req[r2].route = OaChat
        /\ ~BadSecret(req[r2].headers) /\ Issued(r2)

====
